---- MODULE Spec2Model ----
(***************************************************************************)
(* State-machine model of drivers/hwmon/ltc2990.c: the probe routine, the  *)
(* sysfs mode store/show handlers, the channel show handler, the chip's    *)
(* CONTROL/TRIGGER registers behind the SMBus transport and the set of     *)
(* sysfs channel attributes the hwmon device currently publishes.          *)
(***************************************************************************)
EXTENDS Integers, Sequences, FiniteSets, TLC

(* ------------------------------------------------------------------ *)
(* Bounds of the model                                                 *)
(* ------------------------------------------------------------------ *)

\* number of concurrent sysfs callers
NumThreads == 2
\* largest number a caller writes to the mode attribute / the device tree supplies
MaxArg == 12

(* ------------------------------------------------------------------ *)
(* Program constants                                                   *)
(* ------------------------------------------------------------------ *)

LTC2990_CONTROL == 1
LTC2990_TRIGGER == 2
LTC2990_TINT_MSB == 4
LTC2990_V1_MSB == 6
LTC2990_V2_MSB == 8
LTC2990_V3_MSB == 10
LTC2990_V4_MSB == 12
LTC2990_VCC_MSB == 14

LTC2990_CONTROL_KELVIN == 128
LTC2990_CONTROL_SINGLE == 64
LTC2990_CONTROL_MEASURE_ALL == 24
LTC2990_CONTROL_MODE_DEFAULT == 6
LTC2990_CONTROL_MODE_MAX == 7

LTC2990_IN0 == 1
LTC2990_IN1 == 2
LTC2990_IN2 == 4
LTC2990_IN3 == 8
LTC2990_IN4 == 16
LTC2990_CURR1 == 32
LTC2990_CURR2 == 64
LTC2990_TEMP1 == 128
LTC2990_TEMP2 == 256
LTC2990_TEMP3 == 512

\* errno values returned (negated) by the handlers
EIO == 5
ENOMEM == 12
ENODEV == 19
EINVAL == 22

(* ------------------------------------------------------------------ *)
(* Bit arithmetic on naturals                                          *)
(* ------------------------------------------------------------------ *)

RECURSIVE BitAnd(_, _)
BitAnd(a, b) ==
    IF a = 0 \/ b = 0 THEN 0
    ELSE (IF a % 2 = 1 /\ b % 2 = 1 THEN 1 ELSE 0) + 2 * BitAnd(a \div 2, b \div 2)

RECURSIVE BitOr(_, _)
BitOr(a, b) ==
    IF a = 0 THEN b
    ELSE IF b = 0 THEN a
    ELSE (IF a % 2 = 1 \/ b % 2 = 1 THEN 1 ELSE 0) + 2 * BitOr(a \div 2, b \div 2)

\* faulty variant of CDiv: floor division
CDivFloor(a, b) == a \div b

\* C integer division: the quotient is truncated toward zero (b > 0)
CDiv(a, b) == IF a >= 0 THEN a \div b ELSE -((-a) \div b)

(* ------------------------------------------------------------------ *)
(* State                                                               *)
(* ------------------------------------------------------------------ *)

VARIABLES
    mode,        \* data->mode
    update_lock, \* data->update_lock: 0 when free, else the thread holding it
    ctrl,        \* the chip's CONTROL register
    trig,        \* the last byte the chip's TRIGGER register received (0: none yet)
    lastw,       \* the last SMBus write transaction issued: register, byte, outcome, issuer
    published,   \* channel attributes currently visible under the hwmon device
    warned,      \* the dev_warn of probe was emitted
    ppc,         \* position of ltc2990_i2c_probe
    pret,        \* return value of ltc2990_i2c_probe
    pc,          \* per caller: position in the handler it runs
    op,          \* per caller: the handler it runs
    lmode,       \* per caller: local 'mode' of ltc2990_set_mode
    count,       \* per caller: 'count' of ltc2990_set_mode
    index,       \* per caller: attr->index given to ltc2990_get_value
    reg,         \* per caller: local 'reg' of ltc2990_get_value
    val,         \* per caller: local 'val' of ltc2990_get_value, the word read
    out,         \* per caller: the number printed into the sysfs buffer
    ret          \* per caller: return value of the handler

shared == <<mode, update_lock, ctrl, trig, lastw, published, warned>>
probe == <<ppc, pret>>
locals == <<pc, op, lmode, count, index, reg, val, out, ret>>
vars == <<mode, update_lock, ctrl, trig, lastw, published, warned, ppc, pret,
          pc, op, lmode, count, index, reg, val, out, ret>>

Threads == 1..NumThreads

(* ------------------------------------------------------------------ *)
(* Value codec                                                         *)
(* ------------------------------------------------------------------ *)

\* faulty variant of ltc2990_voltage_to_int: sign and magnitude instead of two's complement
ltc2990_voltage_to_int_signmag(raw) ==
    IF BitAnd(raw, 16384) # 0
    THEN (-BitAnd(raw, 16383)) * 4
    ELSE BitAnd(raw, 16383) * 4

\* faulty variant of ltc2990_voltage_to_int: left-aligns the field in 18 bits (<< 4)
ltc2990_voltage_to_int_shift4(raw) ==
    IF BitAnd(raw, 16384) # 0
    THEN (-(16384 - BitAnd(raw, 16383))) * 16
    ELSE BitAnd(raw, 16383) * 16

\* ltc2990_voltage_to_int: 14-bit magnitude, bit 14 is the sign, result << 2
ltc2990_voltage_to_int(raw) ==
    IF BitAnd(raw, 16384) # 0
    THEN (-(16384 - BitAnd(raw, 16383))) * 4
    ELSE BitAnd(raw, 16383) * 4

\* the ten channel indexes carried by the sensor attributes
Channels ==
    { LTC2990_IN0, LTC2990_IN1, LTC2990_IN2, LTC2990_IN3, LTC2990_IN4,
      LTC2990_CURR1, LTC2990_CURR2, LTC2990_TEMP1, LTC2990_TEMP2, LTC2990_TEMP3 }

NoReg == 255

\* faulty variant of RegOf: TEMP3 would follow the stored mode
RegOfByMode(idx) ==
    IF idx = LTC2990_IN0 THEN LTC2990_VCC_MSB
    ELSE IF idx \in {LTC2990_IN1, LTC2990_CURR1, LTC2990_TEMP2} THEN LTC2990_V1_MSB
    ELSE IF idx = LTC2990_IN2 THEN LTC2990_V2_MSB
    ELSE IF idx \in {LTC2990_IN3, LTC2990_CURR2} THEN LTC2990_V3_MSB
    ELSE IF idx = LTC2990_TEMP3
         THEN (IF mode = 5 THEN LTC2990_V2_MSB ELSE LTC2990_V3_MSB)
    ELSE IF idx = LTC2990_IN4 THEN LTC2990_V4_MSB
    ELSE IF idx = LTC2990_TEMP1 THEN LTC2990_TINT_MSB
    ELSE NoReg

\* first switch of ltc2990_get_value: the register an index reads (NoReg: default branch)
RegOf(idx) ==
    IF idx = LTC2990_IN0 THEN LTC2990_VCC_MSB
    ELSE IF idx \in {LTC2990_IN1, LTC2990_CURR1, LTC2990_TEMP2} THEN LTC2990_V1_MSB
    ELSE IF idx = LTC2990_IN2 THEN LTC2990_V2_MSB
    ELSE IF idx \in {LTC2990_IN3, LTC2990_CURR2, LTC2990_TEMP3} THEN LTC2990_V3_MSB
    ELSE IF idx = LTC2990_IN4 THEN LTC2990_V4_MSB
    ELSE IF idx = LTC2990_TEMP1 THEN LTC2990_TINT_MSB
    ELSE NoReg

\* int is 32 bits wide
Int32Max == 2147483647

\* a * b in an int, for 0 < b < 2^15: the product reduced modulo 2^32 into
\* [-2^31, 2^31 - 1] (the kernel is built with -fno-strict-overflow), computed on
\* 16-bit halves of a so that no intermediate value leaves 32 bits
Mul32(a, b) ==
    LET al == a % 65536
        ah == a \div 65536
        lo == al * b
        h  == (ah * b) % 65536
        x  == (IF h >= 32768 THEN h - 65536 ELSE h) * 65536
    IN  IF x > Int32Max - lo
        THEN ((x - (Int32Max - lo)) - 1 - Int32Max) - 1
        ELSE x + lo

\* faulty variant of Convert: temperatures sign-extended from bit 12
ConvertSignedTemp(idx, w) ==
    IF idx \in {LTC2990_TEMP1, LTC2990_TEMP2, LTC2990_TEMP3}
    THEN Mul32((IF BitAnd(w, 4096) # 0 THEN BitAnd(w, 8191) - 8192
                                       ELSE BitAnd(w, 8191)) * 8, 1000) \div 128
    ELSE IF idx \in {LTC2990_CURR1, LTC2990_CURR2}
    THEN CDiv(Mul32(ltc2990_voltage_to_int(w), 1942), 4 * 100)
    ELSE IF idx = LTC2990_IN0
    THEN CDiv(Mul32(ltc2990_voltage_to_int(w), 30518), 4 * 100 * 1000) + 2500
    ELSE CDiv(Mul32(ltc2990_voltage_to_int(w), 30518), 4 * 100 * 1000)

\* faulty variant of Convert: the 2.5 V offset applied to every voltage channel
ConvertOffsetEverywhere(idx, w) ==
    IF idx \in {LTC2990_TEMP1, LTC2990_TEMP2, LTC2990_TEMP3}
    THEN Mul32(BitAnd(w, 8191) * 8, 1000) \div 128
    ELSE IF idx \in {LTC2990_CURR1, LTC2990_CURR2}
    THEN CDiv(Mul32(ltc2990_voltage_to_int(w), 1942), 4 * 100)
    ELSE CDiv(Mul32(ltc2990_voltage_to_int(w), 30518), 4 * 100 * 1000) + 2500

\* second switch of ltc2990_get_value: *result for a channel index and the word read
Convert(idx, w) ==
    IF idx \in {LTC2990_TEMP1, LTC2990_TEMP2, LTC2990_TEMP3}
    THEN Mul32(BitAnd(w, 8191) * 8, 1000) \div 128
    ELSE IF idx \in {LTC2990_CURR1, LTC2990_CURR2}
    THEN CDiv(Mul32(ltc2990_voltage_to_int(w), 1942), 4 * 100)
    ELSE IF idx = LTC2990_IN0
    THEN CDiv(Mul32(ltc2990_voltage_to_int(w), 30518), 4 * 100 * 1000) + 2500
    ELSE CDiv(Mul32(ltc2990_voltage_to_int(w), 30518), 4 * 100 * 1000)

(* ------------------------------------------------------------------ *)
(* Decimal text: what the sysfs buffers hold                           *)
(* ------------------------------------------------------------------ *)

Digits == <<"0", "1", "2", "3", "4", "5", "6", "7", "8", "9">>

IsDigit(c) == \E i \in 1..10 : Digits[i] = c
DigitVal(c) == (CHOOSE i \in 1..10 : Digits[i] = c) - 1

\* the characters "%u" prints for n
RECURSIVE ToDec(_)
ToDec(n) == IF n < 10 THEN <<Digits[n + 1]>>
            ELSE Append(ToDec(n \div 10), Digits[(n % 10) + 1])

\* the number of characters snprintf(buf, PAGE_SIZE, "%d\n", v) writes
SnprintfLen(v) == IF v < 0 THEN Len(ToDec(-v)) + 2 ELSE Len(ToDec(v)) + 1

\* number of leading decimal digits of s
RECURSIVE DigitRun(_)
DigitRun(s) == IF s # <<>> /\ IsDigit(Head(s)) THEN 1 + DigitRun(Tail(s)) ELSE 0

RECURSIVE ParseDigits(_, _)
ParseDigits(s, acc) ==
    IF s = <<>> THEN acc ELSE ParseDigits(Tail(s), acc * 10 + DigitVal(Head(s)))

\* kstrtoul(buf, 10, &mode): an optional '+', at least one digit, an optional
\* final newline, nothing else.  The inputs of the model stay far below ULONG_MAX,
\* so the -ERANGE exit is not taken.
kstrtoul(buf) ==
    LET s  == IF buf # <<>> /\ Head(buf) = "+" THEN Tail(buf) ELSE buf
        rv == DigitRun(s)
        rest == SubSeq(s, rv + 1, Len(s))
        tail == IF rest # <<>> /\ Head(rest) = "\n" THEN Tail(rest) ELSE rest
    IN  IF rv = 0 \/ tail # <<>>
        THEN [err |-> -EINVAL, val |-> 0]
        ELSE [err |-> 0, val |-> ParseDigits(SubSeq(s, 1, rv), 0)]

(* ------------------------------------------------------------------ *)
(* Mode table and attribute visibility                                 *)
(* ------------------------------------------------------------------ *)

\* ltc2990_attrs_ena[], indexed from 1 here (entry m + 1 is mode m)
ltc2990_attrs_ena ==
    << BitOr(BitOr(LTC2990_IN1, LTC2990_IN2), LTC2990_TEMP3),
       BitOr(LTC2990_CURR1, LTC2990_TEMP3),
       BitOr(BitOr(LTC2990_CURR1, LTC2990_IN3), LTC2990_IN4),
       BitOr(BitOr(LTC2990_TEMP2, LTC2990_IN3), LTC2990_IN4),
       BitOr(LTC2990_TEMP2, LTC2990_CURR2),
       BitOr(LTC2990_TEMP2, LTC2990_TEMP3),
       BitOr(LTC2990_CURR1, LTC2990_CURR2),
       BitOr(BitOr(BitOr(LTC2990_IN1, LTC2990_IN2), LTC2990_IN3), LTC2990_IN4) >>

\* channel attributes of ltc2990_group (mode dependent) and of ltc2990_static_group
\* (the static group also holds the 'mode' attribute, which is no channel)
ltc2990_attrs ==
    { LTC2990_TEMP2, LTC2990_TEMP3, LTC2990_CURR1, LTC2990_CURR2,
      LTC2990_IN1, LTC2990_IN2, LTC2990_IN3, LTC2990_IN4 }
ltc2990_static_attrs == { LTC2990_TEMP1, LTC2990_IN0 }

\* faulty variant of ltc2990_attrs_visible: table indexed one entry off
ltc2990_attrs_visible_shifted(m, a) == BitAnd(ltc2990_attrs_ena[((m + 1) % 8) + 1], a) # 0

\* ltc2990_attrs_visible for the attribute with index a, data->mode being m
ltc2990_attrs_visible(m, a) == BitAnd(ltc2990_attrs_ena[m + 1], a) # 0

\* the files of ltc2990_group the sysfs core creates when data->mode is m
GroupVisible(m) == { a \in ltc2990_attrs : ltc2990_attrs_visible(m, a) }

(* ------------------------------------------------------------------ *)
(* Inputs                                                              *)
(* ------------------------------------------------------------------ *)

\* of_node absent, or no readable "mode" property
NoConfig == -1
AllConfigs == {NoConfig} \cup (0..MaxArg)
FewConfigs == {NoConfig, MaxArg}
NoConfigs == {NoConfig}

\* texts written to the mode attribute
ExtraBufs == { <<>>, <<"x">>, <<"7", "x">>, <<"3", "\n">>, <<"+", "5">>, <<"\n">> }
AllBufs == { ToDec(n) : n \in 0..MaxArg } \cup ExtraBufs
FewBufs == { ToDec(2), <<"5", "\n">>, ToDec(LTC2990_CONTROL_MODE_MAX + 1) }
ModeBufs == { ToDec(n) : n \in 0..MaxArg }

\* indexes handed to ltc2990_get_value; the last three are carried by no attribute
AllIndexes == Channels \cup {0, 3, 1024}
FewIndexes == {LTC2990_TEMP1, LTC2990_TEMP3}

\* words the chip returns: zero, the 25 degree word 0x0190, sign bit only, 0x7FFF
BusFail == -1
AllWords == {0, 400, 16384, 32767}
\* every word i2c_smbus_read_word_swapped can return
MaxWord == 65535
Words16 == 0..MaxWord
FewWords == {400}

(* ------------------------------------------------------------------ *)
(* Initial state: the driver is about to probe a freshly powered chip  *)
(* ------------------------------------------------------------------ *)

NoWrite == [reg |-> 0, val |-> 0, ok |-> FALSE, by |-> -1]

Init ==
    /\ mode = 0
    /\ update_lock = 0
    /\ ctrl = 0
    /\ trig = 0
    /\ lastw = NoWrite
    /\ published = {}
    /\ warned = FALSE
    /\ ppc = "p_start"
    /\ pret = 0
    /\ pc = [t \in Threads |-> "idle"]
    /\ op = [t \in Threads |-> "none"]
    /\ lmode = [t \in Threads |-> 0]
    /\ count = [t \in Threads |-> 0]
    /\ index = [t \in Threads |-> 0]
    /\ reg = [t \in Threads |-> NoReg]
    /\ val = [t \in Threads |-> 0]
    /\ out = [t \in Threads |-> 0]
    /\ ret = [t \in Threads |-> 0]

(* ------------------------------------------------------------------ *)
(* SMBus transport and the chip                                        *)
(* ------------------------------------------------------------------ *)

\* i2c_smbus_write_byte_data(i2c, r, v) issued by 'by' (0: probe): the chip latches
\* the byte when the transfer succeeds and keeps its register when it fails
BusWrite(r, v, ok, by) ==
    /\ ctrl' = IF ok /\ r = LTC2990_CONTROL THEN v % 256 ELSE ctrl
    /\ trig' = IF ok /\ r = LTC2990_TRIGGER THEN v % 256 ELSE trig
    /\ lastw' = [reg |-> r, val |-> v % 256, ok |-> ok, by |-> by]

\* faulty variant of ControlByte: ORs the new mode into the old mode bits
ControlByteMixed(m) == BitOr(BitOr(LTC2990_CONTROL_MEASURE_ALL, m), BitAnd(ctrl, 7))

\* the byte ltc2990_write_control_trigger sends to CONTROL when data->mode is m
ControlByte(m) == BitOr(LTC2990_CONTROL_MEASURE_ALL, m)

\* ltc2990_write_control_trigger, first write: "Setup continuous mode"
WriteControl(ok, by) == BusWrite(LTC2990_CONTROL, ControlByte(mode), ok, by)

\* ltc2990_write_control_trigger, second write: "Trigger once"
WriteTrigger(ok, by) == BusWrite(LTC2990_TRIGGER, 1, ok, by)

(* ------------------------------------------------------------------ *)
(* ltc2990_i2c_probe                                                   *)
(* ------------------------------------------------------------------ *)

\* functionality check and devm_kzalloc: r is 0, -ENODEV or -ENOMEM
ProbeAlloc(r) ==
    /\ ppc = "p_start"
    /\ IF r = 0
       THEN /\ ppc' = "p_config"
            /\ mode' = 0
            /\ pret' = pret
       ELSE /\ ppc' = "failed"
            /\ pret' = r
            /\ mode' = mode
    /\ UNCHANGED <<update_lock, ctrl, trig, lastw, published, warned, locals>>

\* of_property_read_u32 stores the property into data->mode; without a node or
\* property data->mode becomes the default
ProbeReadConfig(c) ==
    /\ ppc = "p_config"
    /\ mode' = IF c = NoConfig THEN LTC2990_CONTROL_MODE_DEFAULT ELSE c
    /\ ppc' = "p_check"
    /\ UNCHANGED <<update_lock, ctrl, trig, lastw, published, warned, pret, locals>>

\* faulty variant of ProbeCheckMode: warns but keeps the configured mode
ProbeCheckModeKeep ==
    /\ ppc = "p_check"
    /\ warned' = (mode > LTC2990_CONTROL_MODE_MAX)
    /\ ppc' = "p_ctrl"
    /\ UNCHANGED <<mode, update_lock, ctrl, trig, lastw, published, pret, locals>>

\* faulty variant of ProbeCheckMode: treats the bad configuration as fatal
ProbeCheckModeFatal ==
    /\ ppc = "p_check"
    /\ IF mode > LTC2990_CONTROL_MODE_MAX
       THEN /\ warned' = TRUE
            /\ ppc' = "failed"
            /\ pret' = -EINVAL
       ELSE /\ warned' = warned
            /\ ppc' = "p_ctrl"
            /\ pret' = pret
    /\ UNCHANGED <<mode, update_lock, ctrl, trig, lastw, published, locals>>

\* the range check of probe: warn and fall back to the default
ProbeCheckMode ==
    /\ ppc = "p_check"
    /\ IF mode > LTC2990_CONTROL_MODE_MAX
       THEN /\ warned' = TRUE
            /\ mode' = LTC2990_CONTROL_MODE_DEFAULT
       ELSE UNCHANGED <<warned, mode>>
    /\ ppc' = "p_ctrl"
    /\ UNCHANGED <<update_lock, ctrl, trig, lastw, published, pret, locals>>

ProbeWriteControl(ok) ==
    /\ ppc = "p_ctrl"
    /\ WriteControl(ok, 0)
    /\ IF ok
       THEN /\ ppc' = "p_trig"
            /\ pret' = pret
       ELSE /\ ppc' = "failed"
            /\ pret' = -EIO
    /\ UNCHANGED <<mode, update_lock, published, warned, locals>>

ProbeWriteTrigger(ok) ==
    /\ ppc = "p_trig"
    /\ WriteTrigger(ok, 0)
    /\ IF ok
       THEN /\ ppc' = "p_register"
            /\ pret' = pret
       ELSE /\ ppc' = "failed"
            /\ pret' = -EIO
    /\ UNCHANGED <<mode, update_lock, published, warned, locals>>

\* mutex_init and devm_hwmon_device_register_with_groups: on success both groups
\* are created, ltc2990_group through its is_visible callback
ProbeRegister(ok) ==
    /\ ppc = "p_register"
    /\ IF ok
       THEN /\ published' = GroupVisible(mode) \cup ltc2990_static_attrs
            /\ ppc' = "bound"
            /\ pret' = 0
       ELSE /\ published' = published
            /\ ppc' = "failed"
            /\ pret' = -ENOMEM
    /\ update_lock' = 0
    /\ UNCHANGED <<mode, ctrl, trig, lastw, warned, locals>>

(* ------------------------------------------------------------------ *)
(* ltc2990_set_mode                                                    *)
(* ------------------------------------------------------------------ *)

\* faulty variant of ModeTooBig: lets 8 through
ModeTooBigOffByOne(m) == m > LTC2990_CONTROL_MODE_MAX + 1

\* the range check of ltc2990_set_mode
ModeTooBig(m) == m > LTC2990_CONTROL_MODE_MAX

\* entry up to mutex_lock: kstrtoul, range check; touches no shared state
SetModeCall(t, buf) ==
    /\ ppc = "bound"
    /\ pc[t] = "idle"
    /\ op' = [op EXCEPT ![t] = "set_mode"]
    /\ count' = [count EXCEPT ![t] = Len(buf)]
    /\ LET p == kstrtoul(buf)
       IN  IF p.err # 0
           THEN /\ ret' = [ret EXCEPT ![t] = p.err]
                /\ pc' = [pc EXCEPT ![t] = "done"]
                /\ lmode' = lmode
           ELSE IF ModeTooBig(p.val)
           THEN /\ ret' = [ret EXCEPT ![t] = -EINVAL]
                /\ pc' = [pc EXCEPT ![t] = "done"]
                /\ lmode' = [lmode EXCEPT ![t] = p.val]
           ELSE /\ ret' = ret
                /\ pc' = [pc EXCEPT ![t] = "sm_lock"]
                /\ lmode' = [lmode EXCEPT ![t] = p.val]
    /\ UNCHANGED <<shared, probe, index, reg, val, out>>

\* faulty variant of SetModeLock: does not wait for the holder
SetModeLockNoWait(t) ==
    /\ pc[t] = "sm_lock"
    /\ update_lock' = t
    /\ pc' = [pc EXCEPT ![t] = "sm_store"]
    /\ UNCHANGED <<mode, ctrl, trig, lastw, published, warned, probe,
                   op, lmode, count, index, reg, val, out, ret>>

\* mutex_lock(&data->update_lock): blocks while another caller holds the lock
SetModeLock(t) ==
    /\ pc[t] = "sm_lock"
    /\ update_lock = 0
    /\ update_lock' = t
    /\ pc' = [pc EXCEPT ![t] = "sm_store"]
    /\ UNCHANGED <<mode, ctrl, trig, lastw, published, warned, probe,
                   op, lmode, count, index, reg, val, out, ret>>

\* data->mode = mode
SetModeStore(t) ==
    /\ pc[t] = "sm_store"
    /\ mode' = lmode[t]
    /\ pc' = [pc EXCEPT ![t] = "sm_ctrl"]
    /\ UNCHANGED <<update_lock, ctrl, trig, lastw, published, warned, probe,
                   op, lmode, count, index, reg, val, out, ret>>

\* faulty variant of SetModeWriteControl: goes on to TRIGGER after a failed write
SetModeWriteControlIgnoreErr(t, ok) ==
    /\ pc[t] = "sm_ctrl"
    /\ WriteControl(ok, t)
    /\ pc' = [pc EXCEPT ![t] = "sm_trig"]
    /\ UNCHANGED <<mode, update_lock, published, warned, probe,
                   op, lmode, count, index, reg, val, out, ret>>

\* faulty variant of SetModeWriteControl: restores the chip's mode on failure
SetModeWriteControlRollback(t, ok) ==
    /\ pc[t] = "sm_ctrl"
    /\ WriteControl(ok, t)
    /\ IF ok
       THEN /\ pc' = [pc EXCEPT ![t] = "sm_trig"]
            /\ ret' = ret
            /\ mode' = mode
       ELSE /\ pc' = [pc EXCEPT ![t] = "sm_unlock"]
            /\ ret' = [ret EXCEPT ![t] = -EIO]
            /\ mode' = BitAnd(ctrl, 7)
    /\ UNCHANGED <<update_lock, published, warned, probe,
                   op, lmode, count, index, reg, val, out>>

\* ltc2990_write_control_trigger under the lock, CONTROL write; failure: goto abort
SetModeWriteControl(t, ok) ==
    /\ pc[t] = "sm_ctrl"
    /\ WriteControl(ok, t)
    /\ IF ok
       THEN /\ pc' = [pc EXCEPT ![t] = "sm_trig"]
            /\ ret' = ret
       ELSE /\ pc' = [pc EXCEPT ![t] = "sm_unlock"]
            /\ ret' = [ret EXCEPT ![t] = -EIO]
    /\ UNCHANGED <<mode, update_lock, published, warned, probe,
                   op, lmode, count, index, reg, val, out>>

\* faulty variant of SetModeWriteTrigger: returns on failure without unlocking
SetModeWriteTriggerNoUnlock(t, ok) ==
    /\ pc[t] = "sm_trig"
    /\ WriteTrigger(ok, t)
    /\ IF ok
       THEN /\ pc' = [pc EXCEPT ![t] = "sm_update"]
            /\ ret' = ret
       ELSE /\ pc' = [pc EXCEPT ![t] = "done"]
            /\ ret' = [ret EXCEPT ![t] = -EIO]
    /\ UNCHANGED <<mode, update_lock, published, warned, probe,
                   op, lmode, count, index, reg, val, out>>

\* ltc2990_write_control_trigger under the lock, TRIGGER write; failure: goto abort
SetModeWriteTrigger(t, ok) ==
    /\ pc[t] = "sm_trig"
    /\ WriteTrigger(ok, t)
    /\ IF ok
       THEN /\ pc' = [pc EXCEPT ![t] = "sm_update"]
            /\ ret' = ret
       ELSE /\ pc' = [pc EXCEPT ![t] = "sm_unlock"]
            /\ ret' = [ret EXCEPT ![t] = -EIO]
    /\ UNCHANGED <<mode, update_lock, published, warned, probe,
                   op, lmode, count, index, reg, val, out>>

\* outcomes of sysfs_update_group: the group is rebuilt; or it fails before it
\* touches a file; or it fails while adding a file and removes the group's files
UpdateResults == {"ok", "fail_kept", "fail_removed"}

\* faulty variant of SetModeUpdateGroup: resets data->mode when the update fails
SetModeUpdateGroupReset(t, res) ==
    /\ pc[t] = "sm_update"
    /\ published' =
          IF res = "ok" THEN (published \ ltc2990_attrs) \cup GroupVisible(mode)
          ELSE IF res = "fail_kept" THEN published
          ELSE published \ ltc2990_attrs
    /\ mode' = IF res = "ok" THEN mode ELSE LTC2990_CONTROL_MODE_DEFAULT
    /\ ret' = [ret EXCEPT ![t] = IF res = "ok" THEN count[t] ELSE -ENOMEM]
    /\ pc' = [pc EXCEPT ![t] = "sm_unlock"]
    /\ UNCHANGED <<update_lock, ctrl, trig, lastw, warned, probe,
                   op, lmode, count, index, reg, val, out>>

\* faulty variant of SetModeUpdateGroup: a successful update leaves the files as
\* they were
SetModeUpdateGroupStale(t, res) ==
    /\ pc[t] = "sm_update"
    /\ published' =
          IF res = "fail_removed" THEN published \ ltc2990_attrs ELSE published
    /\ ret' = [ret EXCEPT ![t] = IF res = "ok" THEN count[t] ELSE -ENOMEM]
    /\ pc' = [pc EXCEPT ![t] = "sm_unlock"]
    /\ UNCHANGED <<mode, update_lock, ctrl, trig, lastw, warned, probe,
                   op, lmode, count, index, reg, val, out>>

\* faulty variant of SetModeUpdateGroup: adds the files that became visible and
\* removes none
SetModeUpdateGroupAddOnly(t, res) ==
    /\ pc[t] = "sm_update"
    /\ published' =
          IF res = "ok" THEN published \cup GroupVisible(mode)
          ELSE IF res = "fail_kept" THEN published
          ELSE published \ ltc2990_attrs
    /\ ret' = [ret EXCEPT ![t] = IF res = "ok" THEN count[t] ELSE -ENOMEM]
    /\ pc' = [pc EXCEPT ![t] = "sm_unlock"]
    /\ UNCHANGED <<mode, update_lock, ctrl, trig, lastw, warned, probe,
                   op, lmode, count, index, reg, val, out>>

\* sysfs_update_group(&dev->kobj, &ltc2990_group), then ret = count
SetModeUpdateGroup(t, res) ==
    /\ pc[t] = "sm_update"
    /\ published' =
          IF res = "ok" THEN (published \ ltc2990_attrs) \cup GroupVisible(mode)
          ELSE IF res = "fail_kept" THEN published
          ELSE published \ ltc2990_attrs
    /\ ret' = [ret EXCEPT ![t] = IF res = "ok" THEN count[t] ELSE -ENOMEM]
    /\ pc' = [pc EXCEPT ![t] = "sm_unlock"]
    /\ UNCHANGED <<mode, update_lock, ctrl, trig, lastw, warned, probe,
                   op, lmode, count, index, reg, val, out>>

\* abort: mutex_unlock(&data->update_lock); return ret
SetModeUnlock(t) ==
    /\ pc[t] = "sm_unlock"
    /\ update_lock' = 0
    /\ pc' = [pc EXCEPT ![t] = "done"]
    /\ UNCHANGED <<mode, ctrl, trig, lastw, published, warned, probe,
                   op, lmode, count, index, reg, val, out, ret>>

(* ------------------------------------------------------------------ *)
(* ltc2990_show_value / ltc2990_get_value and ltc2990_get_mode         *)
(* ------------------------------------------------------------------ *)

\* entry of ltc2990_get_value: the first switch selects the register
GetValueCall(t, idx) ==
    /\ ppc = "bound"
    /\ pc[t] = "idle"
    /\ op' = [op EXCEPT ![t] = "show_value"]
    /\ index' = [index EXCEPT ![t] = idx]
    /\ reg' = [reg EXCEPT ![t] = RegOf(idx)]
    /\ IF RegOf(idx) = NoReg
       THEN /\ ret' = [ret EXCEPT ![t] = -EINVAL]
            /\ pc' = [pc EXCEPT ![t] = "done"]
       ELSE /\ ret' = ret
            /\ pc' = [pc EXCEPT ![t] = "gv_read"]
    /\ UNCHANGED <<shared, probe, lmode, count, val, out>>

\* faulty variant of GetValueRead: waits for update_lock to be free
GetValueReadLocked(t, w) ==
    /\ pc[t] = "gv_read"
    /\ update_lock = 0
    /\ IF w = BusFail
       THEN /\ ret' = [ret EXCEPT ![t] = -EIO]
            /\ out' = out
            /\ val' = [val EXCEPT ![t] = -EIO]
       ELSE /\ out' = [out EXCEPT ![t] = Convert(index[t], w)]
            /\ ret' = [ret EXCEPT ![t] = SnprintfLen(Convert(index[t], w))]
            /\ val' = [val EXCEPT ![t] = w]
    /\ pc' = [pc EXCEPT ![t] = "done"]
    /\ UNCHANGED <<shared, probe, op, lmode, count, index, reg>>

\* faulty variant of GetValueRead: triggers a new conversion after the read
GetValueReadRetrigger(t, w) ==
    /\ pc[t] = "gv_read"
    /\ IF w = BusFail
       THEN /\ ret' = [ret EXCEPT ![t] = -EIO]
            /\ out' = out
            /\ val' = [val EXCEPT ![t] = -EIO]
       ELSE /\ out' = [out EXCEPT ![t] = Convert(index[t], w)]
            /\ ret' = [ret EXCEPT ![t] = SnprintfLen(Convert(index[t], w))]
            /\ val' = [val EXCEPT ![t] = w]
    /\ pc' = [pc EXCEPT ![t] = "done"]
    /\ WriteTrigger(TRUE, t)
    /\ UNCHANGED <<mode, update_lock, published, warned, probe,
                   op, lmode, count, index, reg>>

\* i2c_smbus_read_word_swapped(i2c, reg) returning w (BusFail: a negative errno),
\* the conversion, and the snprintf of ltc2990_show_value
GetValueRead(t, w) ==
    /\ pc[t] = "gv_read"
    /\ IF w = BusFail
       THEN /\ ret' = [ret EXCEPT ![t] = -EIO]
            /\ out' = out
            /\ val' = [val EXCEPT ![t] = -EIO]
       ELSE /\ out' = [out EXCEPT ![t] = Convert(index[t], w)]
            /\ ret' = [ret EXCEPT ![t] = SnprintfLen(Convert(index[t], w))]
            /\ val' = [val EXCEPT ![t] = w]
    /\ pc' = [pc EXCEPT ![t] = "done"]
    /\ UNCHANGED <<shared, probe, op, lmode, count, index, reg>>

\* ltc2990_get_mode: prints data->mode, takes no lock
GetModeCall(t) ==
    /\ ppc = "bound"
    /\ pc[t] = "idle"
    /\ op' = [op EXCEPT ![t] = "get_mode"]
    /\ out' = [out EXCEPT ![t] = mode]
    /\ ret' = [ret EXCEPT ![t] = SnprintfLen(mode)]
    /\ pc' = [pc EXCEPT ![t] = "done"]
    /\ UNCHANGED <<shared, probe, lmode, count, index, reg, val>>

\* the handler has returned to the sysfs core; the caller may call again
Return(t) ==
    /\ pc[t] = "done"
    /\ pc' = [pc EXCEPT ![t] = "idle"]
    /\ op' = [op EXCEPT ![t] = "none"]
    /\ lmode' = [lmode EXCEPT ![t] = 0]
    /\ count' = [count EXCEPT ![t] = 0]
    /\ index' = [index EXCEPT ![t] = 0]
    /\ reg' = [reg EXCEPT ![t] = NoReg]
    /\ val' = [val EXCEPT ![t] = 0]
    /\ out' = [out EXCEPT ![t] = 0]
    /\ ret' = [ret EXCEPT ![t] = 0]
    /\ UNCHANGED <<shared, probe>>

(* ------------------------------------------------------------------ *)
(* Specifications                                                      *)
(* ------------------------------------------------------------------ *)

\* Spec: NumThreads concurrent callers with a few inputs each; no configured mode
Next ==
    \/ \E r \in {0, -ENODEV, -ENOMEM} : ProbeAlloc(r)
    \/ \E c \in NoConfigs : ProbeReadConfig(c)
    \/ ProbeCheckMode
    \/ \E ok \in BOOLEAN : ProbeWriteControl(ok)
    \/ \E ok \in BOOLEAN : ProbeWriteTrigger(ok)
    \/ \E ok \in BOOLEAN : ProbeRegister(ok)
    \/ \E t \in Threads, b \in FewBufs : SetModeCall(t, b)
    \/ \E t \in Threads : SetModeLock(t)
    \/ \E t \in Threads : SetModeStore(t)
    \/ \E t \in Threads, ok \in BOOLEAN : SetModeWriteControl(t, ok)
    \/ \E t \in Threads, ok \in BOOLEAN : SetModeWriteTrigger(t, ok)
    \/ \E t \in Threads, res \in UpdateResults : SetModeUpdateGroup(t, res)
    \/ \E t \in Threads : SetModeUnlock(t)
    \/ \E t \in Threads, i \in FewIndexes : GetValueCall(t, i)
    \/ \E t \in Threads, w \in FewWords \cup {BusFail} : GetValueRead(t, w)
    \/ \E t \in Threads : GetModeCall(t)
    \/ \E t \in Threads : Return(t)

Spec == Init /\ [][Next]_vars

\* SpecSeq: one caller, every configured mode, every text, index and sample word
NextSeq ==
    \/ \E r \in {0, -ENODEV, -ENOMEM} : ProbeAlloc(r)
    \/ \E c \in AllConfigs : ProbeReadConfig(c)
    \/ ProbeCheckMode
    \/ \E ok \in BOOLEAN : ProbeWriteControl(ok)
    \/ \E ok \in BOOLEAN : ProbeWriteTrigger(ok)
    \/ \E ok \in BOOLEAN : ProbeRegister(ok)
    \/ \E b \in AllBufs : SetModeCall(1, b)
    \/ SetModeLock(1)
    \/ SetModeStore(1)
    \/ \E ok \in BOOLEAN : SetModeWriteControl(1, ok)
    \/ \E ok \in BOOLEAN : SetModeWriteTrigger(1, ok)
    \/ \E res \in UpdateResults : SetModeUpdateGroup(1, res)
    \/ SetModeUnlock(1)
    \/ \E i \in AllIndexes : GetValueCall(1, i)
    \/ \E w \in AllWords \cup {BusFail} : GetValueRead(1, w)
    \/ GetModeCall(1)
    \/ Return(1)

SpecSeq == Init /\ [][NextSeq]_vars

\* SpecPair: callers 1 and 2 each write the mode attribute once, concurrently
Pair == {1, 2}

NextPair ==
    \/ \E r \in {0, -ENODEV, -ENOMEM} : ProbeAlloc(r)
    \/ \E c \in FewConfigs : ProbeReadConfig(c)
    \/ ProbeCheckMode
    \/ \E ok \in BOOLEAN : ProbeWriteControl(ok)
    \/ \E ok \in BOOLEAN : ProbeWriteTrigger(ok)
    \/ \E ok \in BOOLEAN : ProbeRegister(ok)
    \/ \E t \in Pair, b \in ModeBufs : SetModeCall(t, b)
    \/ \E t \in Pair : SetModeLock(t)
    \/ \E t \in Pair : SetModeStore(t)
    \/ \E t \in Pair, ok \in BOOLEAN : SetModeWriteControl(t, ok)
    \/ \E t \in Pair, ok \in BOOLEAN : SetModeWriteTrigger(t, ok)
    \/ \E t \in Pair, res \in UpdateResults : SetModeUpdateGroup(t, res)
    \/ \E t \in Pair : SetModeUnlock(t)

SpecPair == Init /\ [][NextPair]_vars

\* SpecRW: caller 1 reads every index while caller 2 writes the mode attribute
NextRW ==
    \/ \E r \in {0, -ENODEV, -ENOMEM} : ProbeAlloc(r)
    \/ \E c \in FewConfigs : ProbeReadConfig(c)
    \/ ProbeCheckMode
    \/ \E ok \in BOOLEAN : ProbeWriteControl(ok)
    \/ \E ok \in BOOLEAN : ProbeWriteTrigger(ok)
    \/ \E ok \in BOOLEAN : ProbeRegister(ok)
    \/ \E b \in FewBufs : SetModeCall(2, b)
    \/ SetModeLock(2)
    \/ SetModeStore(2)
    \/ \E ok \in BOOLEAN : SetModeWriteControl(2, ok)
    \/ \E ok \in BOOLEAN : SetModeWriteTrigger(2, ok)
    \/ \E res \in UpdateResults : SetModeUpdateGroup(2, res)
    \/ SetModeUnlock(2)
    \/ \E i \in AllIndexes : GetValueCall(1, i)
    \/ \E w \in FewWords \cup {BusFail} : GetValueRead(1, w)
    \/ GetModeCall(1)
    \/ \E t \in Pair : Return(t)

SpecRW == Init /\ [][NextRW]_vars

\* SpecCodec: after probe, caller 1 reads every channel with every 16-bit word
NextCodec ==
    \/ \E r \in {0, -ENODEV, -ENOMEM} : ProbeAlloc(r)
    \/ \E c \in NoConfigs : ProbeReadConfig(c)
    \/ ProbeCheckMode
    \/ \E ok \in BOOLEAN : ProbeWriteControl(ok)
    \/ \E ok \in BOOLEAN : ProbeWriteTrigger(ok)
    \/ \E ok \in BOOLEAN : ProbeRegister(ok)
    \/ \E i \in Channels : GetValueCall(1, i)
    \/ pc[1] = "gv_read" /\ \E w \in Words16 \cup {BusFail} : GetValueRead(1, w)
    \/ Return(1)

SpecCodec == Init /\ [][NextCodec]_vars

\* SpecOk: NumThreads concurrent callers on a bus that never fails and a
\* sysfs_update_group that always succeeds
NextOk ==
    \/ \E r \in {0, -ENODEV, -ENOMEM} : ProbeAlloc(r)
    \/ \E c \in FewConfigs \cup {LTC2990_CONTROL_MODE_MAX} : ProbeReadConfig(c)
    \/ ProbeCheckMode
    \/ ProbeWriteControl(TRUE)
    \/ ProbeWriteTrigger(TRUE)
    \/ \E ok \in BOOLEAN : ProbeRegister(ok)
    \/ \E t \in Threads, b \in FewBufs : SetModeCall(t, b)
    \/ \E t \in Threads : SetModeLock(t)
    \/ \E t \in Threads : SetModeStore(t)
    \/ \E t \in Threads : SetModeWriteControl(t, TRUE)
    \/ \E t \in Threads : SetModeWriteTrigger(t, TRUE)
    \/ \E t \in Threads : SetModeUpdateGroup(t, "ok")
    \/ \E t \in Threads : SetModeUnlock(t)
    \/ \E t \in Threads : GetModeCall(t)
    \/ \E t \in Threads : Return(t)

SpecOk == Init /\ [][NextOk]_vars

\* texts written to the mode attribute in SpecLive: one accepted, one rejected
LiveBufs == { ToDec(2), ToDec(LTC2990_CONTROL_MODE_MAX + 1) }

\* SpecLive: NumThreads callers writing the mode attribute again and again, under
\* a fair scheduler
NextLive ==
    \/ \E r \in {0, -ENODEV, -ENOMEM} : ProbeAlloc(r)
    \/ \E c \in NoConfigs : ProbeReadConfig(c)
    \/ ProbeCheckMode
    \/ \E ok \in BOOLEAN : ProbeWriteControl(ok)
    \/ \E ok \in BOOLEAN : ProbeWriteTrigger(ok)
    \/ \E ok \in BOOLEAN : ProbeRegister(ok)
    \/ \E t \in Threads, b \in LiveBufs : SetModeCall(t, b)
    \/ \E t \in Threads : SetModeLock(t)
    \/ \E t \in Threads : SetModeStore(t)
    \/ \E t \in Threads, ok \in BOOLEAN : SetModeWriteControl(t, ok)
    \/ \E t \in Threads, ok \in BOOLEAN : SetModeWriteTrigger(t, ok)
    \/ \E t \in Threads, res \in UpdateResults : SetModeUpdateGroup(t, res)
    \/ \E t \in Threads : SetModeUnlock(t)
    \/ \E t \in Threads : Return(t)

\* every caller inside set_mode keeps running: the bus transfers and
\* sysfs_update_group complete or fail synchronously, and the mutex hands the lock
\* to a waiter that is ready again and again (strong fairness of mutex_lock)
FairSetMode ==
    \A t \in Threads :
        /\ SF_vars(SetModeLock(t))
        /\ WF_vars(SetModeStore(t))
        /\ WF_vars(\E ok \in BOOLEAN : SetModeWriteControl(t, ok))
        /\ WF_vars(\E ok \in BOOLEAN : SetModeWriteTrigger(t, ok))
        /\ WF_vars(\E res \in UpdateResults : SetModeUpdateGroup(t, res))
        /\ WF_vars(SetModeUnlock(t))

SpecLive == Init /\ [][NextLive]_vars /\ FairSetMode

(* ------------------------------------------------------------------ *)
(* Properties                                                          *)
(* ------------------------------------------------------------------ *)

\* a caller holds, or is about to release, the lock of ltc2990_set_mode
InCS(t) == pc[t] \in {"sm_store", "sm_ctrl", "sm_trig", "sm_update", "sm_unlock"}

\* the Mode Table of the specification, mode -> mode-dependent channels
ModeTable(m) ==
    CASE m = 0 -> {LTC2990_IN1, LTC2990_IN2, LTC2990_TEMP3}
      [] m = 1 -> {LTC2990_CURR1, LTC2990_TEMP3}
      [] m = 2 -> {LTC2990_CURR1, LTC2990_IN3, LTC2990_IN4}
      [] m = 3 -> {LTC2990_TEMP2, LTC2990_IN3, LTC2990_IN4}
      [] m = 4 -> {LTC2990_TEMP2, LTC2990_CURR2}
      [] m = 5 -> {LTC2990_TEMP2, LTC2990_TEMP3}
      [] m = 6 -> {LTC2990_CURR1, LTC2990_CURR2}
      [] m = 7 -> {LTC2990_IN1, LTC2990_IN2, LTC2990_IN3, LTC2990_IN4}

AlwaysVisible == {LTC2990_TEMP1, LTC2990_IN0}

\* C1: a set_mode call whose number is above 7 ends with -EINVAL without ever
\* reaching the lock, and the step that rejects it (like the step that rejects an
\* unparsable text) leaves data->mode, the lock, the chip's CONTROL and TRIGGER
\* registers, the bus and the published attributes untouched, whatever the other
\* callers are doing.
C1_RejectedSetModeHasNoEffect ==
    /\ [](\A t \in Threads :
            (op[t] = "set_mode" /\ lmode[t] > 7)
                => (pc[t] = "done" /\ ret[t] = -EINVAL /\ update_lock # t))
    /\ [][\A t \in Threads :
            (pc[t] = "idle" /\ pc'[t] = "done" /\ op'[t] = "set_mode")
                => (ret'[t] = -EINVAL /\ UNCHANGED shared)]_vars

\* C1 witness: set_mode(8) was rejected while another caller is between its
\* CONTROL and TRIGGER writes
C1_Witness ==
    \E t, u \in Threads :
        /\ t # u
        /\ pc[t] = "done" /\ op[t] = "set_mode" /\ lmode[t] = 8 /\ ret[t] = -EINVAL
        /\ update_lock = u /\ pc[u] = "sm_trig"

\* C2: once probe is past its range check data->mode is in 0..7 for ever; every
\* caller past the range check of set_mode carries a number in 0..7; and nothing
\* was written to the bus or published while probe had not yet checked the
\* configured mode.  Every CONTROL byte sent carries measure-all plus a mode in 0..7.
C2_ModeAlwaysInRange ==
    /\ (ppc \notin {"p_start", "p_config", "p_check"}) => mode \in 0..7
    /\ (ppc \in {"p_start", "p_config", "p_check"}) => (lastw = NoWrite /\ published = {})
    /\ \A t \in Threads : (pc[t] = "sm_lock" \/ InCS(t)) => lmode[t] \in 0..7
    /\ (lastw # NoWrite /\ lastw.reg = LTC2990_CONTROL) => (lastw.val - 24) \in 0..7

\* C2 witness: the configured mode was out of range, a set_mode of the largest
\* number was rejected, and the stored mode is a valid mode other than the default
C2_Witness ==
    /\ warned
    /\ ppc = "bound"
    /\ pc[1] = "done" /\ op[1] = "set_mode" /\ lmode[1] = MaxArg /\ ret[1] = -EINVAL
    /\ mode = 3

\* both callers of the pair asked for a mode in 0..7 and have returned
BothReturned ==
    \A t \in Pair : pc[t] = "done" /\ op[t] = "set_mode" /\ lmode[t] \in 0..7

\* C3 as stated: once two concurrent set_mode calls for modes a and b in 0..7
\* have both returned, the mode field (bits 2-0) of CONTROL is a or b.
C3_AsStated ==
    BothReturned => BitAnd(ctrl, 7) \in {lmode[1], lmode[2]}

\* C3 amended: once two concurrent set_mode calls for modes a and b in 0..7 have
\* both returned, and at least one of them did not fail with a transport error,
\* the CONTROL register is exactly measure-all plus a or measure-all plus b,
\* never a mix of the two or of an earlier mode.
C3_PairEndsOnOneRequestedMode ==
    (BothReturned /\ \E t \in Pair : ret[t] # -EIO)
        => ctrl \in {24 + lmode[1], 24 + lmode[2]}

\* C3 witness: both calls succeeded for the modes 5 (binary 101) and 2 (binary
\* 010), whose bitwise mix would be 7, and CONTROL carries mode 2
C3_Witness ==
    /\ BothReturned
    /\ lmode[1] = 5 /\ lmode[2] = 2
    /\ ret[1] > 0 /\ ret[2] > 0
    /\ ctrl = 26

\* C4: at most one caller is between mutex_lock and mutex_unlock of set_mode, it
\* is the holder of the lock, and while a caller is there every bus write, every
\* change of the CONTROL and TRIGGER registers, of data->mode and of the
\* published attributes is a step of that caller.
C4_SetModeSerialized ==
    /\ [](\A t, u \in Threads : (InCS(t) /\ InCS(u)) => t = u)
    /\ [](\A t \in Threads : InCS(t) <=> update_lock = t)
    /\ [][\A t \in Threads :
            (InCS(t) /\ <<mode, ctrl, trig, lastw, published>>'
                          # <<mode, ctrl, trig, lastw, published>>)
                => pc'[t] # pc[t]]_vars

\* C4 witness: one caller is between its CONTROL and TRIGGER writes while
\* another waits for the lock
C4_Witness ==
    \E t, u \in Threads :
        /\ t # u
        /\ pc[t] = "sm_trig" /\ update_lock = t
        /\ pc[u] = "sm_lock"

\* C5: when set_mode(m) has republished successfully and still holds the lock,
\* the published attributes are exactly the Mode Table entry of m plus TEMP1 and
\* IN0; and TEMP1 and IN0 are published from registration on, in every mode and
\* after every failure.
C5_PublishedIsModeTableEntry ==
    /\ \A t \in Threads :
         (pc[t] = "sm_unlock" /\ ret[t] > 0)
             => published = ModeTable(lmode[t]) \cup AlwaysVisible
    /\ ppc = "bound" => AlwaysVisible \subseteq published

\* C5 witness: set_mode(3) has just republished {TEMP2, IN3, IN4} plus the two
\* fixed channels
C5_Witness ==
    /\ pc[1] = "sm_unlock" /\ ret[1] > 0 /\ lmode[1] = 3
    /\ published = {LTC2990_TEMP2, LTC2990_IN3, LTC2990_IN4, LTC2990_TEMP1, LTC2990_IN0}

\* C6: a caller reading a channel never holds the lock, and its bus read is
\* enabled in every state in which it is due, whoever holds the lock and wherever
\* that holder is in set_mode; a caller that is idle can always start a read.
C6_ReadNeverWaitsForLock ==
    \A t \in Threads :
        /\ op[t] = "show_value" => update_lock # t
        /\ pc[t] = "gv_read" => ENABLED GetValueRead(t, 400)
        /\ (pc[t] = "idle" /\ ppc = "bound") => ENABLED GetValueCall(t, LTC2990_TEMP1)

\* C6 witness: a read is about to go on the bus while another caller holds
\* the lock and has stored the new mode but not yet written CONTROL
C6_Witness ==
    \E t, u \in Threads :
        /\ t # u
        /\ pc[t] = "gv_read"
        /\ update_lock = u /\ pc[u] = "sm_ctrl" /\ BitAnd(ctrl, 7) # mode

\* C7: the register a read addresses depends on the channel index alone: TEMP1
\* reads 0x04, IN1/CURR1/TEMP2 read 0x06, IN2 reads 0x08, IN3/CURR2/TEMP3 read
\* 0x0A, IN4 reads 0x0C, IN0 reads 0x0E, in every mode and while a mode switch is
\* in progress; any other index ends with -EINVAL before a register is chosen.
C7_RegisterDependsOnChannelOnly ==
    \A t \in Threads :
        op[t] = "show_value" =>
            /\ index[t] = LTC2990_TEMP1 => reg[t] = 4
            /\ index[t] \in {LTC2990_IN1, LTC2990_CURR1, LTC2990_TEMP2} => reg[t] = 6
            /\ index[t] = LTC2990_IN2 => reg[t] = 8
            /\ index[t] \in {LTC2990_IN3, LTC2990_CURR2, LTC2990_TEMP3} => reg[t] = 10
            /\ index[t] = LTC2990_IN4 => reg[t] = 12
            /\ index[t] = LTC2990_IN0 => reg[t] = 14
            /\ index[t] \in Channels => (pc[t] = "gv_read" \/ ret[t] # -EINVAL)
            /\ index[t] \notin Channels =>
                   (pc[t] = "done" /\ ret[t] = -EINVAL /\ reg[t] = NoReg)

\* C7 witness: TEMP3 is about to be read from V3 (0x0A) while the stored mode is
\* already 5 and the writer of the mode still holds the lock
C7_Witness ==
    /\ pc[1] = "gv_read" /\ index[1] = LTC2990_TEMP3 /\ reg[1] = 10
    /\ mode = 5 /\ update_lock = 2 /\ pc[2] = "sm_ctrl"

\* C8: a configured mode above 7 makes probe warn and store the default 6 (and
\* probe warns in no other case); the CONTROL byte it then sends is measure-all
\* plus 6; after the warning probe fails only on a failed bus write or a failed
\* registration; and once probe has warned and bound the device, a read of TEMP1
\* whose bus read succeeds returns a value.
C8_OutOfRangeConfigFallsBackToDefault ==
    /\ []((warned /\ ppc \in {"p_ctrl", "p_trig", "p_register"}) => mode = 6)
    /\ []((warned /\ ppc \in {"p_trig", "p_register"}) => ctrl = 30)
    /\ []((warned /\ ppc = "p_register") => trig = 1)
    /\ []((warned /\ ppc = "failed")
            => ((pret = -EIO /\ ~lastw.ok) \/ (pret = -ENOMEM /\ lastw.ok)))
    /\ []((warned /\ ppc = "bound") =>
            \A t \in Threads :
                (pc[t] = "done" /\ op[t] = "show_value" /\ index[t] = LTC2990_TEMP1)
                    => (ret[t] = -EIO \/ (ret[t] > 0 /\ out[t] >= 0)))
    /\ [][(ppc = "p_check" /\ ppc' # ppc)
            => IF mode > 7 THEN (warned' /\ mode' = 6 /\ ppc' = "p_ctrl")
                           ELSE (~warned' /\ mode' = mode /\ ppc' = "p_ctrl")]_vars

\* C8 witness: probe warned, bound the device with CONTROL = 0x1E, and a read of
\* TEMP1 of the 25 degree word returned 25000
C8_Witness ==
    /\ warned /\ ppc = "bound" /\ mode = 6 /\ ctrl = 30
    /\ pc[1] = "done" /\ op[1] = "show_value" /\ index[1] = LTC2990_TEMP1
    /\ ret[1] = 6 /\ out[1] = 25000

\* C9: every bus write is to CONTROL or TRIGGER; a CONTROL write carries
\* measure-all (bits 4-3) plus the stored mode in bits 2-0 and zero in bits 7-6;
\* a TRIGGER write carries 1 and directly follows a successful CONTROL write of
\* the same caller; and a failed write makes its caller fail with the transport
\* error (probe fails, set_mode goes to its exit with -EIO).
C9_ControlThenTrigger ==
    [][(lastw' # lastw) =>
         /\ lastw'.reg \in {LTC2990_CONTROL, LTC2990_TRIGGER}
         /\ lastw'.reg = LTC2990_CONTROL =>
               /\ lastw'.val = 24 + mode
               /\ BitAnd(lastw'.val, 192) = 0
               /\ BitAnd(lastw'.val, 24) = 24
               /\ BitAnd(lastw'.val, 7) = mode
         /\ lastw'.reg = LTC2990_TRIGGER =>
               /\ lastw'.val = 1
               /\ lastw.reg = LTC2990_CONTROL /\ lastw.ok /\ lastw.by = lastw'.by
         /\ ~lastw'.ok =>
               IF lastw'.by = 0
               THEN ppc' = "failed" /\ pret' = -EIO
               ELSE pc'[lastw'.by] = "sm_unlock" /\ ret'[lastw'.by] = -EIO
         /\ lastw'.ok =>
               IF lastw'.by = 0
               THEN ppc' = (IF lastw'.reg = LTC2990_CONTROL THEN "p_trig" ELSE "p_register")
               ELSE pc'[lastw'.by] =
                        (IF lastw'.reg = LTC2990_CONTROL THEN "sm_trig" ELSE "sm_update")
      ]_vars

\* C9 witness: a caller of set_mode has written CONTROL and then TRIGGER, after
\* an earlier CONTROL write of another mode
C9_Witness ==
    \E t \in Threads :
        /\ pc[t] = "sm_update"
        /\ lastw = [reg |-> LTC2990_TRIGGER, val |-> 1, ok |-> TRUE, by |-> t]
        /\ ctrl = 24 + 5 /\ mode = 5 /\ trig = 1

\* a set_mode call that failed on the bus
FailedOnBus(t) ==
    pc[t] \in {"sm_unlock", "done"} /\ op[t] = "set_mode" /\ ret[t] = -EIO

\* C10: a set_mode(m) whose CONTROL or TRIGGER write failed returns -EIO with
\* data->mode equal to m (and a mode read prints data->mode); it reaches its exit
\* straight from the failed write, and from the moment it takes the lock to its
\* return the published attributes do not change.
C10_NoRollbackOnBusFailure ==
    /\ [](\A t \in Threads : FailedOnBus(t) => mode = lmode[t])
    /\ [](\A t \in Threads :
            (pc[t] = "done" /\ op[t] = "get_mode")
                => (out[t] = mode /\ ret[t] = 2))
    /\ [][\A t \in Threads :
            /\ (pc[t] \in {"sm_store", "sm_ctrl", "sm_trig"} \/ FailedOnBus(t))
                  => published' = published
            /\ (pc'[t] = "sm_unlock" /\ pc[t] # "sm_unlock" /\ ret'[t] = -EIO)
                  => pc[t] \in {"sm_ctrl", "sm_trig"}
            /\ (pc[t] = "sm_unlock" /\ pc'[t] = "done") => ret'[t] = ret[t]]_vars

\* C10 witness: set_mode(3) returned -EIO; the stored mode is 3 while the chip's
\* CONTROL register and the published attributes are still those of another mode
C10_Witness ==
    /\ pc[1] = "done" /\ op[1] = "set_mode" /\ ret[1] = -EIO /\ lmode[1] = 3
    /\ mode = 3
    /\ BitAnd(ctrl, 7) # 3
    /\ published # ModeTable(3) \cup AlwaysVisible

(* ------------------------------------------------------------------ *)
(* Properties of the value codec                                       *)
(* ------------------------------------------------------------------ *)

\* caller t has read a word from the bus and converted it
HasRead(t) == pc[t] = "done" /\ op[t] = "show_value" /\ val[t] >= 0

\* the fields of a raw word, by arithmetic
Low13(r) == r % 8192
Low14(r) == r % 16384
Bit14(r) == (r \div 16384) % 2

\* the specification's decode_signed14 and its truncating division
decode_signed14(r) == IF Bit14(r) = 1 THEN (-(16384 - Low14(r))) * 4 ELSE Low14(r) * 4
TruncDiv(a, b) == IF a < 0 THEN -((-a) \div b) ELSE a \div b

TempChannels == {LTC2990_TEMP1, LTC2990_TEMP2, LTC2990_TEMP3}
CurrChannels == {LTC2990_CURR1, LTC2990_CURR2}
InChannels == {LTC2990_IN1, LTC2990_IN2, LTC2990_IN3, LTC2990_IN4}

\* C12: for every 16-bit word read, ltc2990_voltage_to_int gives the low 14 bits
\* times 4 when bit 14 is clear and -(0x4000 - low 14 bits) times 4 when it is
\* set, whatever bit 15 is; 0x0000 gives 0 and bit 14 alone gives -65536.
C12_DecodeSigned14 ==
    \A t \in Threads :
        HasRead(t) =>
            /\ ltc2990_voltage_to_int(val[t]) = decode_signed14(val[t])
            /\ ltc2990_voltage_to_int(val[t]) = ltc2990_voltage_to_int(val[t] % 32768)
            /\ ltc2990_voltage_to_int(val[t]) = ltc2990_voltage_to_int((val[t] % 32768) + 32768)
            /\ val[t] = 0 => ltc2990_voltage_to_int(val[t]) = 0
            /\ (Bit14(val[t]) = 1 /\ Low14(val[t]) = 0)
                   => ltc2990_voltage_to_int(val[t]) = -65536
            /\ index[t] \in CurrChannels
                   => out[t] = TruncDiv(decode_signed14(val[t]) * 1942, 400)

\* C12 witness: the word 0xC000 (bits 15 and 14 set) was read on a current
\* channel; it decodes to -65536, which prints as -318177
C12_Witness ==
    /\ HasRead(1) /\ val[1] = 49152 /\ index[1] = LTC2990_CURR1
    /\ ltc2990_voltage_to_int(val[1]) = -65536
    /\ out[1] = -318177

\* C13: on TEMP1, TEMP2 and TEMP3 every 16-bit word converts to
\* (((raw AND 0x1FFF) << 3) * 1000) >> 7: never negative, the same for all values
\* of bits 13-15, and 25000 for the word 0x0190.
C13_TemperatureIsUnsigned13 ==
    \A t \in Threads :
        (HasRead(t) /\ index[t] \in TempChannels) =>
            /\ out[t] = ((Low13(val[t]) * 8) * 1000) \div 128
            /\ out[t] >= 0
            /\ out[t] = Convert(index[t], Low13(val[t]))
            /\ val[t] = 400 => out[t] = 25000

\* C13 witness: the word 0xFFFF, a negative 13-bit number, reads as +511937
C13_Witness ==
    /\ HasRead(1) /\ val[1] = 65535 /\ index[1] = LTC2990_TEMP2
    /\ out[1] = 511937

\* C14: for every 16-bit word, IN1..IN4 give decode * 30518 / 400000 truncated and
\* IN0 gives the same quotient plus 2500; a word that decodes to zero gives 0 on
\* IN1..IN4 and 2500 on IN0.
C14_VoltageOffsets ==
    \A t \in Threads :
        HasRead(t) =>
            /\ index[t] \in InChannels
                 => /\ out[t] = TruncDiv(decode_signed14(val[t]) * 30518, 400000)
                    /\ decode_signed14(val[t]) = 0 => out[t] = 0
            /\ index[t] = LTC2990_IN0
                 => /\ out[t] = TruncDiv(decode_signed14(val[t]) * 30518, 400000) + 2500
                    /\ decode_signed14(val[t]) = 0 => out[t] = 2500

\* C14 witness: the word 0x8000 decodes to zero and reads 2500 on IN0
C14_Witness ==
    /\ HasRead(1) /\ val[1] = 32768 /\ index[1] = LTC2990_IN0
    /\ out[1] = 2500

\* C15: for every word whose decoded value d is negative the current channels
\* give -((-d) * 1942 \div 400) and the voltage channels -((-d) * 30518 \div 400000)
\* (plus 2500 on IN0): the quotient of |d| negated, never the floor; a decoded -4
\* on a current channel gives -19.
C15_DivisionTruncatesTowardZero ==
    \A t \in Threads :
        (HasRead(t) /\ decode_signed14(val[t]) < 0) =>
            /\ index[t] \in CurrChannels
                 => /\ out[t] = -(((-decode_signed14(val[t])) * 1942) \div 400)
                    /\ decode_signed14(val[t]) = -4 => out[t] = -19
            /\ index[t] \in InChannels
                 => out[t] = -(((-decode_signed14(val[t])) * 30518) \div 400000)
            /\ index[t] = LTC2990_IN0
                 => out[t] = 2500 - (((-decode_signed14(val[t])) * 30518) \div 400000)

\* C15 witness: the word 0x7FFF decodes to -4 and reads -19 on a current channel
C15_Witness ==
    /\ HasRead(1) /\ val[1] = 32767 /\ index[1] = LTC2990_CURR2
    /\ decode_signed14(val[1]) = -4
    /\ out[1] = -19

\* a * b lies in [-2^31, 2^31 - 1], for b > 0, decided without forming a * b
FitsInt32Mul(a, b) ==
    LET q == Int32Max \div b
    IN  /\ a <= q
        /\ (a >= -q \/ (a = -q - 1 /\ Int32Max - q * b = b - 1))

\* C19: for every channel and every 16-bit word read, the decoded value, its
\* products with 1942 and with 30518, the masked temperature word shifted left 3
\* and its product with 1000, and the result with its offset all lie in
\* [-2^31, 2^31 - 1]: the 32-bit products equal the mathematical ones, and the
\* value shown is the one computed without any wrap-around.
C19_NoInt32Overflow ==
    \A t \in Threads :
        HasRead(t) =>
            \A d \in {ltc2990_voltage_to_int(val[t])} :
            \A m8 \in {BitAnd(val[t], 8191) * 8} :
                /\ d >= -65536 /\ d <= 65532
                /\ m8 >= 0 /\ m8 <= 65528
                /\ FitsInt32Mul(d, 1942)
                /\ FitsInt32Mul(d, 30518)
                /\ FitsInt32Mul(m8, 1000)
                /\ Mul32(d, 1942) = d * 1942
                /\ Mul32(d, 30518) = d * 30518
                /\ Mul32(m8, 1000) = m8 * 1000
                /\ TruncDiv(d * 30518, 400000) <= Int32Max - 2500
                /\ index[t] \in TempChannels => out[t] = (m8 * 1000) \div 128
                /\ index[t] \in CurrChannels => out[t] = TruncDiv(d * 1942, 400)
                /\ index[t] \in InChannels => out[t] = TruncDiv(d * 30518, 400000)
                /\ index[t] = LTC2990_IN0 => out[t] = TruncDiv(d * 30518, 400000) + 2500

\* C19 witness: the word 0x4000 was read on IN1; its decoded value -65536 gives
\* the product of largest magnitude, -2000027648, which prints as -5000
C19_Witness ==
    /\ HasRead(1) /\ val[1] = 16384 /\ index[1] = LTC2990_IN1
    /\ ltc2990_voltage_to_int(val[1]) * 30518 = -2000027648
    /\ out[1] = -5000

(* ------------------------------------------------------------------ *)
(* Properties of set_mode's failure paths, visibility and the readers  *)
(* ------------------------------------------------------------------ *)

\* C11: the step of set_mode that republishes either succeeds or leaves a
\* negative errno in ret, and in both cases keeps data->mode, CONTROL and TRIGGER;
\* when it failed, the caller returns that errno while data->mode is the mode it
\* asked for, CONTROL holds 0x18 + that mode and the conversion was triggered.
C11_RepublishFailureKeepsMode ==
    /\ [][\A t \in Threads :
            (pc[t] = "sm_update" /\ pc'[t] # "sm_update")
                => /\ ret'[t] = count[t] \/ ret'[t] < 0
                   /\ mode' = lmode[t] /\ ctrl' = 24 + lmode[t] /\ trig' = 1
                   /\ lastw' = lastw]_vars
    /\ [](\A t \in Threads :
            (op[t] = "set_mode" /\ pc[t] \in {"sm_unlock", "done"} /\ ret[t] = -ENOMEM)
                => (mode = lmode[t] /\ ctrl = 24 + lmode[t] /\ trig = 1))

\* C11 witness: set_mode(5) has returned -ENOMEM with every file of the group
\* removed; data->mode is 5 and CONTROL is 0x1D
C11_Witness ==
    /\ pc[1] = "done" /\ op[1] = "set_mode" /\ ret[1] = -ENOMEM /\ lmode[1] = 5
    /\ mode = 5 /\ ctrl = 29 /\ trig = 1
    /\ published = AlwaysVisible
    /\ update_lock = 0

\* no caller is inside set_mode, waiting for the lock or holding it
NoSetModeInProgress == \A t \in Threads : pc[t] # "sm_lock" /\ ~InCS(t)

\* C16: on a bus that never fails and with updates that always succeed, whenever
\* the device is bound and no set_mode call is in progress CONTROL is 0x18 + data->mode
\* and the mode-dependent published channels are the Mode Table entry of data->mode.
C16_QuiescentConsistency ==
    (ppc = "bound" /\ NoSetModeInProgress)
        => /\ ctrl = 24 + mode
           /\ published \ AlwaysVisible = ModeTable(mode)

\* C16 witness: callers 1 and 2 have both completed a set_mode, the last one to
\* mode 5
C16_Witness ==
    /\ ppc = "bound" /\ NoSetModeInProgress
    /\ pc[1] = "done" /\ op[1] = "set_mode" /\ ret[1] = count[1] /\ lmode[1] = 2
    /\ pc[2] = "done" /\ op[2] = "set_mode" /\ ret[2] = count[2] /\ lmode[2] = 5
    /\ mode = 5 /\ ctrl = 29
    /\ published = {LTC2990_TEMP2, LTC2990_TEMP3, LTC2990_TEMP1, LTC2990_IN0}

C20_ReadsAreReadOnly ==
    /\ [][\A t \in Threads :
            (pc'[t] # pc[t] /\ op'[t] \in {"show_value", "get_mode"})
                => UNCHANGED shared]_vars
    /\ [][\A t \in Threads :
            (pc[t] = "gv_read" /\ pc'[t] # "gv_read") => pc'[t] = "done"]_vars
    /\ [](\A t \in Threads :
            /\ pc[t] = "gv_read" => (index[t] \in Channels /\ reg[t] # NoReg)
            /\ (op[t] = "show_value" /\ index[t] \notin Channels)
                   => (pc[t] = "done" /\ ret[t] = -EINVAL /\ reg[t] = NoReg)
            /\ op[t] = "get_mode" => pc[t] = "done")

\* C20 witness: a channel read has failed on the bus while the other caller
\* holds the lock between its CONTROL and TRIGGER writes
C20_Witness ==
    /\ pc[1] = "done" /\ op[1] = "show_value" /\ ret[1] = -EIO
    /\ update_lock = 2 /\ pc[2] = "sm_trig"
    /\ lastw.by = 2 /\ lastw.reg = LTC2990_CONTROL

\* C17: the lock is only ever held by a caller between mutex_lock and
\* mutex_unlock of set_mode, never by one that has returned or is idle; every
\* return from the locked part happens with the lock released; and under a fair
\* scheduler every caller that reached mutex_lock eventually returns.
C17_LockReleasedOnEveryExit ==
    /\ [](update_lock # 0 => (update_lock \in Threads /\ InCS(update_lock)))
    /\ [][\A t \in Threads :
            (InCS(t) /\ pc'[t] = "done") => (update_lock = t /\ update_lock' = 0)]_vars
    /\ \A t \in Threads : (pc[t] = "sm_lock") ~> (pc[t] = "done")

\* C17 witness: a set_mode has returned -EIO after its TRIGGER write failed, and
\* another caller has since obtained the lock
C17_Witness ==
    \E t, u \in Threads :
        /\ t # u
        /\ pc[t] = "done" /\ op[t] = "set_mode" /\ ret[t] = -EIO
        /\ lastw.by = t /\ lastw.reg = LTC2990_TRIGGER /\ ~lastw.ok
        /\ update_lock = u /\ pc[u] = "sm_store"

====
